---- MODULE Spec2Model ----
(***************************************************************************)
(* A model of SpineEngine (spine_engine.py): the construction of the two   *)
(* injector maps, the backward and the forward pipeline driven by run(),   *)
(* the per-node compute function, and stop() called from a second thread.  *)
(*                                                                         *)
(* Python dictionaries are modelled as sequences of <<key, value>> pairs   *)
(* in insertion order, because _inverted and the input aggregation depend  *)
(* on the iteration order.                                                 *)
(*                                                                         *)
(* The run() thread and the stop() thread interleave at the granularity of *)
(* one access to a shared attribute (_state, _running_item) or one call of *)
(* an item method.                                                         *)
(***************************************************************************)
EXTENDS Integers, Sequences, FiniteSets, TLC

\* ------------------------------------------------------------------------
\* Bounds of the model
\* ------------------------------------------------------------------------

\* how many times stop() is called by the controlling thread
MaxStops == 2

\* how many times run() is called on one engine
MaxRuns == 2

\* how many keys a successor mapping given to _inverted has
MaxKeys == 3

\* how many successors an item of such a mapping has
MaxSuccessors == 2

\* ------------------------------------------------------------------------
\* Values
\* ------------------------------------------------------------------------

None == "None"

\* the value of a list of resources that has not been built
NoList == <<None>>

SLEEPING == "SLEEPING"
RUNNING == "RUNNING"
USER_STOPPED == "USER_STOPPED"
FAILED == "FAILED"
COMPLETED == "COMPLETED"

SpineEngineState == {SLEEPING, RUNNING, USER_STOPPED, FAILED, COMPLETED}

Directions == {"backward", "forward"}

\* item.short_name for the item called name: the name without its space
short_name(name) ==
    CASE name = "A 1" -> "A_1"
      [] name = "B 1" -> "B_1"
      [] name = "C 1" -> "C_1"
      [] name = "D 1" -> "D_1"

\* item.output_resources(direction): two resources owned by the item
output_resources(item, direction) ==
    << <<item, direction, 1>>, <<item, direction, 2>> >>

\* ------------------------------------------------------------------------
\* Dictionaries as sequences of <<key, value>> pairs
\* ------------------------------------------------------------------------

Keys(dict) == {dict[i][1] : i \in DOMAIN dict}

\* dict.get(key, [])
Get(dict, key) ==
    IF key \in Keys(dict)
    THEN dict[CHOOSE i \in DOMAIN dict : dict[i][1] = key][2]
    ELSE <<>>

\* faulty variant: the list of the value is replaced, not appended to
SetDefaultAppend_Overwrites(output, value, key) ==
    IF value \in Keys(output)
    THEN [i \in DOMAIN output |->
            IF output[i][1] = value THEN <<value, <<key>>>> ELSE output[i]]
    ELSE Append(output, <<value, <<key>>>>)

\* output.setdefault(value, list()).append(key)
SetDefaultAppend(output, value, key) ==
    IF value \in Keys(output)
    THEN [i \in DOMAIN output |->
            IF output[i][1] = value
            THEN <<value, Append(output[i][2], key)>>
            ELSE output[i]]
    ELSE Append(output, <<value, <<key>>>>)

\* faulty variant: only the first value of the list is inverted
InvertValues_FirstOnly(output, key, value_list, j) ==
    IF value_list = <<>>
    THEN output
    ELSE SetDefaultAppend(output, value_list[1], key)

RECURSIVE InvertValues(_, _, _, _)
\* the inner loop of _inverted: for value in value_list
InvertValues(output, key, value_list, j) ==
    IF j > Len(value_list)
    THEN output
    ELSE InvertValues(SetDefaultAppend(output, value_list[j], key), key, value_list, j + 1)

RECURSIVE InvertItems(_, _, _)
\* the outer loop of _inverted: for key, value_list in input_.items()
InvertItems(output, input_, i) ==
    IF i > Len(input_)
    THEN output
    ELSE InvertItems(InvertValues(output, input_[i][1], input_[i][2], 1), input_, i + 1)

_inverted(input_) == InvertItems(<<>>, input_, 1)

\* ------------------------------------------------------------------------
\* Construction
\* ------------------------------------------------------------------------

\* The workflows the engine is built for: the items and their successors
Workflows ==
    { \* diamond A -> B, A -> C, B -> D, C -> D
      [project_items |-> <<"A 1", "B 1", "C 1", "D 1">>,
       successors |-> << <<"A 1", <<"B 1", "C 1">>>>,
                         <<"B 1", <<"D 1">>>>,
                         <<"C 1", <<"D 1">>>> >>],
      \* chain A -> B and an item with no edge
      [project_items |-> <<"A 1", "B 1", "C 1">>,
       successors |-> << <<"A 1", <<"B 1">>>>, <<"B 1", <<>>>> >>] }

Range(seq) == {seq[i] : i \in DOMAIN seq}

\* The permit maps the engine is built with: every item permitted, every
\* item but one, or none
PermitMaps(names) ==
    {permits \in [names -> BOOLEAN] :
        \/ \A name \in names : ~permits[name]
        \/ \E name \in names : \A other \in names \ {name} : permits[other]}

\* [d[x] for x in value]
ShortNames(names) == [i \in DOMAIN names |-> short_name(names[i])]

\* back_injectors of __init__
BackInjectors(successors) ==
    [i \in DOMAIN successors |->
        <<short_name(successors[i][1]), ShortNames(successors[i][2])>>]

\* faulty variant: the forward injectors are not inverted
ForthInjectors_NotInverted(successors) == BackInjectors(successors)

\* forth_injectors of __init__
ForthInjectors(successors) == _inverted(BackInjectors(successors))


\* ------------------------------------------------------------------------
\* State
\* ------------------------------------------------------------------------

VARIABLES
    workflow,            \* project_items and successors given to __init__
    execution_permits,   \* item name -> BOOLEAN
    _backward_pipeline,  \* self._backward_pipeline
    _forward_pipeline,   \* self._forward_pipeline
    back_injectors,      \* back_injectors of __init__
    forth_injectors,     \* forth_injectors of __init__
    round_trip,          \* _inverted applied to forth_injectors
    _state,              \* self._state
    _running_item,       \* self._running_item (the item, by its short name)
    rpc,                 \* where the thread in run() is
    direction,           \* the pipeline chain() is drawing events from
    current,             \* the solid whose step is in progress
    status,              \* direction -> solid -> state of its step
    outputs,             \* direction -> solid -> its "result" output
    spc,                 \* where the thread in stop() is
    runs,                \* calls of run() so far
    stops,               \* calls of stop() so far
    entry_state,         \* _state when the last run() was entered
    stopped_in_run,      \* stop() has set _state since the last run() set RUNNING
    failed_set,          \* the last run() has set FAILED
    started_doomed,      \* direction -> solid -> _state was FAILED/USER_STOPPED at its start
    inputs,              \* direction -> solid -> the list compute_fn built
    execute_calls,       \* direction -> solid -> calls of item.execute
    output_calls,        \* direction -> solid -> calls of item.output_resources
    stop_calls,          \* item -> calls of item.stop_execution
    execute_results,     \* direction -> solid -> what item.execute returned
    last_event,          \* the item of the last STEP_START or STEP_FAILURE event run() met
    stop_target          \* the item whose execute lasted for all of the last stop() so far

vars == <<workflow, execution_permits, _backward_pipeline, _forward_pipeline,
          back_injectors, forth_injectors, round_trip,
          _state, _running_item, rpc, direction,
          current, status, outputs, spc, runs, stops, entry_state,
          stopped_in_run, failed_set, started_doomed, inputs, execute_calls,
          output_calls, stop_calls, stop_target,
          execute_results, last_event>>

\* the names of the solids of a pipeline: item.short_name for each item
Solids == {short_name(name) : name \in Range(workflow.project_items)}

\* faulty variant: the solid ignores the permit and always executes
_make_solid_def_AlwaysExecutes(item, injectors, dir, execute) ==
    [name |-> short_name(item),
     input_defs |-> Get(injectors, short_name(item)),
     direction |-> dir,
     execute |-> TRUE]

\* _make_solid_def: the solid of an item, with one input per injector of
\* the item, in list order, and the permit compute_fn closes over
_make_solid_def(item, injectors, dir, execute) ==
    [name |-> short_name(item),
     input_defs |-> Get(injectors, short_name(item)),
     direction |-> dir,
     execute |-> execute]

\* _make_dependencies: solid -> the solids its inputs are connected to
\* dagster dependencies: solid -> the solids whose "result" it takes as input
_make_dependencies(injectors) ==
    [i \in DOMAIN injectors |-> <<injectors[i][1], Range(injectors[i][2])>>]

\* _make_pipeline: the solids by name, and the dependencies
_make_pipeline(project_items, injectors, dir, permits) ==
    [solid_defs |->
        [solid \in {short_name(name) : name \in Range(project_items)} |->
            _make_solid_def(CHOOSE name \in Range(project_items) :
                                short_name(name) = solid,
                            injectors, dir,
                            permits[CHOOSE name \in Range(project_items) :
                                        short_name(name) = solid])],
     dependencies |-> _make_dependencies(injectors)]

\* the pipeline chain() draws from in the direction
Pipeline(dir) ==
    IF dir = "backward" THEN _backward_pipeline ELSE _forward_pipeline

\* the solids a solid waits for in the pipeline of the direction
Upstream(dir, solid) ==
    LET dependencies == Pipeline(dir).dependencies
    IN  IF solid \in Keys(dependencies)
        THEN dependencies[CHOOSE i \in DOMAIN dependencies :
                              dependencies[i][1] = solid][2]
        ELSE {}

\* the execute flag of the solid's compute_fn
Permit(dir, solid) == Pipeline(dir).solid_defs[solid].execute

\* faulty variant: a skipped step does not count as ended
Terminal_WithoutSkipped == {"succeeded", "failed"}

Terminal == {"succeeded", "failed", "skipped"}

RECURSIVE Flatten_Reversed(_, _)
\* faulty variant: the values are concatenated last to first
Flatten_Reversed(values, i) ==
    IF i > Len(values)
    THEN <<>>
    ELSE Flatten_Reversed(values, i + 1) \o values[i]

RECURSIVE Flatten(_, _)
\* [val for values in inputs.values() for val in values]
Flatten(values, i) ==
    IF i > Len(values) THEN <<>> ELSE values[i] \o Flatten(values, i + 1)

\* the inputs dictionary the pipeline hands to compute_fn, as its values
InputValues(dir, solid) ==
    LET defs == Pipeline(dir).solid_defs[solid].input_defs
    IN  [i \in DOMAIN defs |-> outputs[dir][defs[i]]]

Fresh(value) == [dir \in Directions |-> [solid \in Solids |-> value]]

Init ==
    /\ workflow \in Workflows
    /\ execution_permits \in PermitMaps(Range(workflow.project_items))
    /\ _backward_pipeline =
           _make_pipeline(workflow.project_items,
                          BackInjectors(workflow.successors),
                          "backward", execution_permits)
    /\ _forward_pipeline =
           _make_pipeline(workflow.project_items,
                          ForthInjectors(workflow.successors),
                          "forward", execution_permits)
    /\ back_injectors = BackInjectors(workflow.successors)
    /\ forth_injectors = ForthInjectors(workflow.successors)
    /\ round_trip = <<>>
    /\ _state = SLEEPING
    /\ _running_item = None
    /\ rpc = "idle"
    /\ direction = "backward"
    /\ current = None
    /\ status = Fresh("pending")
    /\ outputs = Fresh(NoList)
    /\ spc = "idle"
    /\ runs = 0
    /\ stops = 0
    /\ entry_state = None
    /\ stopped_in_run = FALSE
    /\ failed_set = FALSE
    /\ started_doomed = Fresh(FALSE)
    /\ inputs = Fresh(NoList)
    /\ execute_calls = Fresh(0)
    /\ output_calls = Fresh(0)
    /\ stop_calls = [solid \in Solids |-> 0]
    /\ stop_target = None
    /\ execute_results = Fresh(None)
    /\ last_event = None

Static == <<workflow, execution_permits, _backward_pipeline, _forward_pipeline,
            back_injectors, forth_injectors, round_trip>>
StopVars == <<spc, stops, stop_calls, stop_target>>
Events == <<execute_results, last_event>>

History == <<entry_state, failed_set, started_doomed, inputs, execute_calls,
             output_calls, Events>>


\* ------------------------------------------------------------------------
\* run(): the thread that drives both pipelines
\* ------------------------------------------------------------------------

\* faulty variant: run() sets RUNNING only when the engine is SLEEPING
Run_OnlyFromSleeping ==
    /\ rpc = "idle"
    /\ runs = 0
    /\ runs' = runs + 1
    /\ entry_state' = _state
    /\ _state' = IF _state = SLEEPING THEN RUNNING ELSE _state
    /\ rpc' = "next"
    /\ direction' = "backward"
    /\ current' = None
    /\ status' = Fresh("pending")
    /\ outputs' = Fresh(NoList)
    /\ stopped_in_run' = FALSE
    /\ failed_set' = FALSE
    /\ started_doomed' = Fresh(FALSE)
    /\ inputs' = Fresh(NoList)
    /\ execute_calls' = Fresh(0)
    /\ output_calls' = Fresh(0)
    /\ execute_results' = Fresh(None)
    /\ UNCHANGED <<Static, _running_item, StopVars, last_event>>

\* run() is entered, once: self._state = RUNNING, and both iterators are
\* created
Run ==
    /\ rpc = "idle"
    /\ runs = 0
    /\ runs' = runs + 1
    /\ entry_state' = _state
    /\ _state' = RUNNING
    /\ rpc' = "next"
    /\ direction' = "backward"
    /\ current' = None
    /\ status' = Fresh("pending")
    /\ outputs' = Fresh(NoList)
    /\ stopped_in_run' = FALSE
    /\ failed_set' = FALSE
    /\ started_doomed' = Fresh(FALSE)
    /\ inputs' = Fresh(NoList)
    /\ execute_calls' = Fresh(0)
    /\ output_calls' = Fresh(0)
    /\ execute_results' = Fresh(None)
    /\ UNCHANGED <<Static, _running_item, StopVars, last_event>>

\* every solid the step waits for has ended
Ready(dir, solid) ==
    /\ status[dir][solid] = "pending"
    /\ \A up \in Upstream(dir, solid) : status[dir][up] \in Terminal

\* the step can run: every solid it waits for has yielded its output
Runnable(dir, solid) ==
    \A up \in Upstream(dir, solid) : status[dir][up] = "succeeded"

\* faulty variant: the event of a STEP_START does not record the item
StepStart_NotRecorded(solid) ==
    /\ rpc = "next"
    /\ Ready(direction, solid)
    /\ Runnable(direction, solid)
    /\ status' = [status EXCEPT ![direction][solid] = "started"]
    /\ current' = solid
    /\ started_doomed' = [started_doomed EXCEPT ![direction][solid] =
                              _state \in {USER_STOPPED, FAILED}]
    /\ rpc' = "compute"
    /\ last_event' = solid
    /\ UNCHANGED <<Static, execute_results, _state, _running_item, direction,
                   outputs, runs,
                   StopVars, entry_state, stopped_in_run, failed_set, inputs,
                   execute_calls, output_calls>>

\* the event of a STEP_START: self._running_item = lookup[event.solid_name]
StepStart(solid) ==
    /\ rpc = "next"
    /\ Ready(direction, solid)
    /\ Runnable(direction, solid)
    /\ status' = [status EXCEPT ![direction][solid] = "started"]
    /\ current' = solid
    /\ _running_item' = solid
    /\ started_doomed' = [started_doomed EXCEPT ![direction][solid] =
                              _state \in {USER_STOPPED, FAILED}]
    /\ rpc' = "compute"
    /\ last_event' = solid
    /\ UNCHANGED <<Static, execute_results, _state, direction, outputs, runs,
                   StopVars,
                   entry_state, stopped_in_run, failed_set, inputs,
                   execute_calls, output_calls>>

\* faulty variant: run() records the item of a skipped step as it does the
\* item of a failed one
StepSkipped_Recorded(solid) ==
    /\ rpc = "next"
    /\ Ready(direction, solid)
    /\ ~Runnable(direction, solid)
    /\ status' = [status EXCEPT ![direction][solid] = "skipped"]
    /\ _running_item' = solid
    /\ UNCHANGED <<Static, _state, rpc, direction, current, outputs, runs,
                   StopVars, stopped_in_run, History>>

\* a step whose upstream step failed or was skipped is skipped; run() does
\* nothing on the event
StepSkipped(solid) ==
    /\ rpc = "next"
    /\ Ready(direction, solid)
    /\ ~Runnable(direction, solid)
    /\ status' = [status EXCEPT ![direction][solid] = "skipped"]
    /\ UNCHANGED <<Static, _state, _running_item, rpc, direction, current,
                   outputs, runs, StopVars, stopped_in_run, History>>

\* faulty variant: compute_fn without the check of self.state()
ComputeFn_NoStateCheck ==
    /\ rpc = "compute"
    /\ inputs' = [inputs EXCEPT ![direction][current] =
                      Flatten(InputValues(direction, current), 1)]
    /\ IF Permit(direction, current)
       THEN /\ execute_calls' = [execute_calls EXCEPT
                                    ![direction][current] = @ + 1]
            /\ rpc' = "executing"
       ELSE /\ rpc' = "output"
            /\ UNCHANGED execute_calls
    /\ UNCHANGED <<Static, Events, _state, _running_item, direction, current, status,
                   outputs, runs, StopVars, entry_state, stopped_in_run,
                   failed_set, started_doomed, output_calls>>

\* compute_fn up to the call of item.execute: the check of self.state(),
\* the flattening of the inputs, and the call when the permit is True
ComputeFn ==
    /\ rpc = "compute"
    /\ IF _state \in {USER_STOPPED, FAILED}
       THEN /\ rpc' = "failure"
            /\ UNCHANGED <<inputs, execute_calls>>
       ELSE /\ inputs' = [inputs EXCEPT ![direction][current] =
                              Flatten(InputValues(direction, current), 1)]
            /\ IF Permit(direction, current)
               THEN /\ execute_calls' = [execute_calls EXCEPT
                                            ![direction][current] = @ + 1]
                    /\ rpc' = "executing"
               ELSE /\ rpc' = "output"
                    /\ UNCHANGED execute_calls
    /\ UNCHANGED <<Static, Events, _state, _running_item, direction, current, status,
                   outputs, runs, StopVars, entry_state, stopped_in_run,
                   failed_set, started_doomed, output_calls>>

\* faulty variant: what item.execute returns is ignored
ExecuteReturn_Ignored(ok) ==
    /\ rpc = "executing"
    /\ rpc' = "output"
    /\ stop_target' = IF spc # "idle" THEN None ELSE stop_target
    /\ execute_results' = [execute_results EXCEPT ![direction][current] =
                               IF ok THEN "True" ELSE "False"]
    /\ UNCHANGED <<Static, _state, _running_item, direction, current, status,
                   outputs, runs, spc, stops, stop_calls, stopped_in_run,
                   entry_state, failed_set, started_doomed, inputs,
                   execute_calls, output_calls, last_event>>

\* item.execute(inputs, direction) returns; False raises Failure
ExecuteReturn(ok) ==
    /\ rpc = "executing"
    /\ rpc' = IF ok THEN "output" ELSE "failure"
    /\ stop_target' = IF spc # "idle" THEN None ELSE stop_target
    /\ execute_results' = [execute_results EXCEPT ![direction][current] =
                               IF ok THEN "True" ELSE "False"]
    /\ UNCHANGED <<Static, _state, _running_item, direction, current, status,
                   outputs, runs, spc, stops, stop_calls, stopped_in_run,
                   entry_state, failed_set, started_doomed, inputs,
                   execute_calls, output_calls, last_event>>

\* yield Output(value=item.output_resources(direction)): the step succeeds
OutputResources ==
    /\ rpc = "output"
    /\ output_calls' = [output_calls EXCEPT ![direction][current] = @ + 1]
    /\ outputs' = [outputs EXCEPT ![direction][current] =
                       output_resources(current, direction)]
    /\ status' = [status EXCEPT ![direction][current] = "succeeded"]
    /\ current' = None
    /\ rpc' = "next"
    /\ UNCHANGED <<Static, Events, _state, _running_item, direction, runs, StopVars,
                   entry_state, stopped_in_run, failed_set, started_doomed,
                   inputs, execute_calls>>

\* the event of a STEP_FAILURE: self._running_item = lookup[event.solid_name]
StepFailure ==
    /\ rpc = "failure"
    /\ status' = [status EXCEPT ![direction][current] = "failed"]
    /\ _running_item' = current
    /\ last_event' = current
    /\ current' = None
    /\ rpc' = "fail_check"
    /\ UNCHANGED <<Static, _state, direction, outputs, runs, StopVars,
                   stopped_in_run, entry_state, failed_set, started_doomed,
                   inputs, execute_calls, output_calls, execute_results>>

\* faulty variant: the comparison with USER_STOPPED is inverted
FailCheck_Inverted ==
    /\ rpc = "fail_check"
    /\ rpc' = IF _state = USER_STOPPED THEN "fail_set" ELSE "next"
    /\ UNCHANGED <<Static, _state, _running_item, direction, current, status,
                   outputs, runs, StopVars, stopped_in_run, History>>

\* if self._state != SpineEngineState.USER_STOPPED
FailCheck ==
    /\ rpc = "fail_check"
    /\ rpc' = IF _state # USER_STOPPED THEN "fail_set" ELSE "next"
    /\ UNCHANGED <<Static, _state, _running_item, direction, current, status,
                   outputs, runs, StopVars, stopped_in_run, History>>

\* faulty variant: the failure leaves the state as it is
FailSet_NotSet ==
    /\ rpc = "fail_set"
    /\ failed_set' = TRUE
    /\ rpc' = "next"
    /\ UNCHANGED <<Static, Events, _state, _running_item, direction, current,
                   status, outputs, runs, StopVars, entry_state,
                   stopped_in_run, started_doomed, inputs, execute_calls,
                   output_calls>>

\* self._state = SpineEngineState.FAILED
FailSet ==
    /\ rpc = "fail_set"
    /\ _state' = FAILED
    /\ failed_set' = TRUE
    /\ rpc' = "next"
    /\ UNCHANGED <<Static, Events, _running_item, direction, current, status,
                   outputs, runs, StopVars, entry_state, stopped_in_run,
                   started_doomed, inputs, execute_calls, output_calls>>

AllEnded(dir) == \A solid \in Solids : status[dir][solid] \in Terminal

\* faulty variant: the forward iterator is drawn from before the backward one is
\* exhausted
NextPipeline_Early ==
    /\ rpc = "next"
    /\ direction = "backward"
    /\ direction' = "forward"
    /\ UNCHANGED <<Static, _state, _running_item, rpc, current, status,
                   outputs, runs, StopVars, stopped_in_run, History>>

\* chain(): the backward iterator is exhausted, the forward one is next
NextPipeline ==
    /\ rpc = "next"
    /\ direction = "backward"
    /\ AllEnded("backward")
    /\ direction' = "forward"
    /\ UNCHANGED <<Static, _state, _running_item, rpc, current, status,
                   outputs, runs, StopVars, stopped_in_run, History>>

\* the for loop ends: the forward iterator is exhausted
EndOfEvents ==
    /\ rpc = "next"
    /\ direction = "forward"
    /\ AllEnded("forward")
    /\ rpc' = "end_check"
    /\ UNCHANGED <<Static, _state, _running_item, direction, current, status,
                   outputs, runs, StopVars, stopped_in_run, History>>

\* faulty variant: COMPLETED is set whatever the state is
EndCheck_Unchecked ==
    /\ rpc = "end_check"
    /\ rpc' = "end_set"
    /\ UNCHANGED <<Static, _state, _running_item, direction, current, status,
                   outputs, runs, StopVars, stopped_in_run, History>>

\* if self._state == SpineEngineState.RUNNING
EndCheck ==
    /\ rpc = "end_check"
    /\ rpc' = IF _state = RUNNING THEN "end_set" ELSE "idle"
    /\ UNCHANGED <<Static, _state, _running_item, direction, current, status,
                   outputs, runs, StopVars, stopped_in_run, History>>

\* faulty variant: run() forgets the running item when it completes
EndSet_ResetsRunningItem ==
    /\ rpc = "end_set"
    /\ _state' = COMPLETED
    /\ _running_item' = None
    /\ rpc' = "idle"
    /\ UNCHANGED <<Static, direction, current, status, outputs, runs,
                   StopVars, stopped_in_run, History>>

\* self._state = SpineEngineState.COMPLETED, and run() returns
EndSet ==
    /\ rpc = "end_set"
    /\ _state' = COMPLETED
    /\ rpc' = "idle"
    /\ UNCHANGED <<Static, _running_item, direction, current, status, outputs,
                   runs, StopVars, stopped_in_run, History>>

\* ------------------------------------------------------------------------
\* stop(): called from another thread
\* ------------------------------------------------------------------------

\* the item whose execute is in progress
Executing == IF rpc = "executing" THEN current ELSE None

\* self._state = SpineEngineState.USER_STOPPED
Stop ==
    /\ spc = "idle"
    /\ stops < MaxStops
    /\ stops' = stops + 1
    /\ _state' = USER_STOPPED
    /\ stopped_in_run' = (stopped_in_run \/ rpc # "idle")
    /\ stop_target' = Executing
    /\ spc' = "test"
    /\ UNCHANGED <<Static, _running_item, rpc, direction, current, status,
                   outputs, runs, stop_calls, History>>

\* faulty variant: stop_execution is called whatever _running_item is
StopTest_Unconditional ==
    /\ spc = "test"
    /\ spc' = "call"
    /\ UNCHANGED <<Static, _state, _running_item, rpc, direction, current,
                   status, outputs, runs, stops, stop_calls, stop_target,
                   stopped_in_run, History>>

\* if self._running_item
StopTest ==
    /\ spc = "test"
    /\ spc' = IF _running_item # None THEN "call" ELSE "idle"
    /\ UNCHANGED <<Static, _state, _running_item, rpc, direction, current,
                   status, outputs, runs, stops, stop_calls, stop_target,
                   stopped_in_run, History>>

\* self._running_item.stop_execution()
StopExecution ==
    /\ spc = "call"
    /\ stop_calls' = [stop_calls EXCEPT ![_running_item] = @ + 1]
    /\ spc' = "idle"
    /\ UNCHANGED <<Static, _state, _running_item, rpc, direction, current,
                   status, outputs, runs, stops, stop_target, stopped_in_run,
                   History>>

Next ==
    \/ Run
    \/ \E solid \in Solids : StepStart(solid)
    \/ \E solid \in Solids : StepSkipped(solid)
    \/ ComputeFn
    \/ \E ok \in BOOLEAN : ExecuteReturn(ok)
    \/ OutputResources
    \/ StepFailure
    \/ FailCheck
    \/ FailSet
    \/ NextPipeline
    \/ EndOfEvents
    \/ EndCheck
    \/ EndSet
    \/ Stop
    \/ StopTest
    \/ StopExecution

Spec == Init /\ [][Next]_vars

\* the steps of the thread in run(): dagster's execution of the pipelines,
\* the return of item.execute included, and the handling of its events
RunSteps ==
    \/ \E solid \in Solids : StepStart(solid)
    \/ \E solid \in Solids : StepSkipped(solid)
    \/ ComputeFn
    \/ \E ok \in BOOLEAN : ExecuteReturn(ok)
    \/ OutputResources
    \/ StepFailure
    \/ FailCheck
    \/ FailSet
    \/ NextPipeline
    \/ EndOfEvents
    \/ EndCheck
    \/ EndSet

\* the thread in run() is not held for ever, and every execute returns
FairSpec == Spec /\ WF_vars(RunSteps)


\* ------------------------------------------------------------------------
\* Vocabulary of the properties
\* ------------------------------------------------------------------------

Doomed == {USER_STOPPED, FAILED}

\* run() has been called and has returned
Returned == runs > 0 /\ rpc = "idle"

\* the edges item -> successor of the successor mapping, by short name
Edges ==
    UNION {{<<short_name(workflow.successors[i][1]), short_name(successor)>> :
               successor \in Range(workflow.successors[i][2])} :
           i \in DOMAIN workflow.successors}

\* the solids whose output a solid takes as input in the direction, given
\* the edges
Predecessors(edges, dir, solid) ==
    IF dir = "forward"
    THEN {e[1] : e \in {x \in edges : x[2] = solid}}
    ELSE {e[2] : e \in {x \in edges : x[1] = solid}}

\* the permit of the item a solid was made of
PermitOf(solid) ==
    \A name \in Range(workflow.project_items) :
        short_name(name) = solid => execution_permits[name]

\* the step of the solid ended as failed after its item's execute returned False
ExecuteFailed(dir, solid) ==
    status[dir][solid] = "failed" /\ execute_calls[dir][solid] > 0

\* ------------------------------------------------------------------------
\* C1
\* ------------------------------------------------------------------------

\* C1: a run() called from SLEEPING leaves the state RUNNING until FAILED is
\* set or stop() is called, returns with USER_STOPPED, FAILED or COMPLETED,
\* and COMPLETED is set only by the step after the end of both pipelines
\* whose check read RUNNING, which no run that set FAILED reaches.
C1_RunReachesTerminalState ==
    entry_state = SLEEPING =>
        /\ Returned => _state \in {USER_STOPPED, FAILED, COMPLETED}
        /\ (rpc # "idle" /\ ~stopped_in_run /\ ~failed_set) => _state = RUNNING
        /\ _state \notin {SLEEPING}
        /\ rpc = "end_set" =>
              AllEnded("backward") /\ AllEnded("forward") /\ ~failed_set
        /\ _state = COMPLETED =>
              /\ Returned
              /\ AllEnded("backward") /\ AllEnded("forward")
              /\ ~failed_set

\* a run() called from SLEEPING has gone through both passes and returned
\* with COMPLETED
C1_Witness ==
    /\ entry_state = SLEEPING
    /\ Returned
    /\ _state = COMPLETED
    /\ stops = 0

\* ------------------------------------------------------------------------
\* C2
\* ------------------------------------------------------------------------

\* C2: once a stop() called between run()'s setting RUNNING and run()'s
\* return has set USER_STOPPED, the state is USER_STOPPED, also when run()
\* has returned.
C2_StopIsNeverOverwritten ==
    stopped_in_run => _state = USER_STOPPED

\* ------------------------------------------------------------------------
\* C3
\* ------------------------------------------------------------------------

\* C3: a solid whose step started when the state was FAILED or USER_STOPPED
\* has neither its item's execute nor its item's output_resources called,
\* in both passes; nor has a solid that is pending or skipped.
C3_FailFast ==
    \A dir \in Directions : \A solid \in Solids :
        (started_doomed[dir][solid]
            \/ status[dir][solid] \in {"pending", "skipped"}) =>
            /\ execute_calls[dir][solid] = 0
            /\ output_calls[dir][solid] = 0
            /\ outputs[dir][solid] = NoList

\* a solid with no edge to the failed one started after the failure and
\* ended as failed
C3_Witness ==
    /\ ExecuteFailed("backward", "B_1")
    /\ "C_1" \in Solids /\ Edges = {<<"A_1", "B_1">>}
    /\ started_doomed["forward"]["C_1"]
    /\ status["forward"]["C_1"] = "failed"
    /\ started_doomed["backward"]["C_1"]

\* ------------------------------------------------------------------------
\* C4
\* ------------------------------------------------------------------------

\* C4: when stop() is never called, once the failure event of a step is
\* consumed (check and assignment done) the state is FAILED: no step is in
\* progress in between, and run() returns with FAILED.
C4_FailureSetsFailed ==
    (stops = 0 /\ \E dir \in Directions : \E solid \in Solids :
                      status[dir][solid] = "failed") =>
        /\ rpc \in {"fail_check", "fail_set"} => current = None
        /\ rpc \notin {"fail_check", "fail_set"} => _state = FAILED
        /\ \E dir \in Directions : \E solid \in Solids : ExecuteFailed(dir, solid)

\* execute returned False in the forward pass, and run() has returned
C4_Witness ==
    /\ stops = 0
    /\ Returned
    /\ \E solid \in Solids : ExecuteFailed("forward", solid)
    /\ \A solid \in Solids : status["backward"][solid] = "succeeded"
    /\ _state = FAILED


\* ------------------------------------------------------------------------
\* C5
\* ------------------------------------------------------------------------

\* C5: for every edge item -> successor, the forward step of successor has
\* not started before the forward step of item ended, and the backward step
\* of item has not started before the backward step of successor ended.
C5_PredecessorsEndFirst ==
    \A e \in Edges :
        /\ status["forward"][e[2]] # "pending" =>
               status["forward"][e[1]] \in Terminal
        /\ status["backward"][e[1]] # "pending" =>
               status["backward"][e[2]] \in Terminal

\* the backward step of A is in progress after the backward step of its
\* successor B succeeded
C5_Witness ==
    /\ <<"A_1", "B_1">> \in Edges
    /\ status["backward"]["A_1"] = "started"
    /\ status["backward"]["B_1"] = "succeeded"

\* ------------------------------------------------------------------------
\* C6
\* ------------------------------------------------------------------------

\* C6: no forward step has started or been skipped, and no forward call of
\* execute or output_resources has been made, while chain() still draws
\* from the backward pipeline; it leaves the backward pipeline only when
\* every backward step has ended.
C6_BackwardThenForward ==
    /\ direction = "forward" => AllEnded("backward")
    /\ (direction = "backward" \/ ~AllEnded("backward")) =>
           \A solid \in Solids :
               /\ status["forward"][solid] = "pending"
               /\ execute_calls["forward"][solid] = 0
               /\ output_calls["forward"][solid] = 0

\* a forward execute is in progress after a backward pass that ran a step
C6_Witness ==
    /\ direction = "forward"
    /\ rpc = "executing"
    /\ \E solid \in Solids : output_calls["backward"][solid] = 1

\* ------------------------------------------------------------------------
\* C7
\* ------------------------------------------------------------------------

\* the resources of the solid are part of the list, in their order
Delivered(resources, list) ==
    \E k \in 0..Len(list) :
        /\ k + Len(resources) <= Len(list)
        /\ \A j \in 1..Len(resources) : list[k + j] = resources[j]

\* C7: the execute of an item whose permit is False is never called, in
\* either direction; its step fails only by the check of the state, is
\* skipped only after a predecessor that did not succeed, and otherwise
\* succeeds with output_resources called once, and the resources are part
\* of the inputs built for each dependent.
C7_NoPermitStillYieldsOutput ==
    LET edges == Edges
    IN
    \A solid \in Solids : \A dir \in Directions :
        ~PermitOf(solid) =>
            /\ execute_calls[dir][solid] = 0
            /\ (rpc = "failure" /\ current = solid /\ direction = dir) =>
                   _state \in Doomed
            /\ status[dir][solid] = "failed" => (stopped_in_run \/ failed_set
                                                    \/ started_doomed[dir][solid])
            /\ status[dir][solid] = "skipped" =>
                   \E p \in Predecessors(edges, dir, solid) :
                       status[dir][p] \in {"failed", "skipped"}
            /\ (rpc = "output" /\ current = solid /\ direction = dir) =>
                   output_calls[dir][solid] = 0
            /\ status[dir][solid] = "succeeded" =>
                   /\ output_calls[dir][solid] = 1
                   /\ outputs[dir][solid] = output_resources(solid, dir)
                   /\ \A other \in Solids :
                          (inputs[dir][other] # NoList
                              /\ solid \in Predecessors(edges, dir, other)) =>
                              Delivered(output_resources(solid, dir),
                                        inputs[dir][other])

\* an item without permit succeeded and a dependent was executed on its output
C7_Witness ==
    \E dir \in Directions : \E solid \in Solids : \E other \in Solids :
        /\ ~PermitOf(solid)
        /\ status[dir][solid] = "succeeded"
        /\ solid \in Predecessors(Edges, dir, other)
        /\ execute_calls[dir][other] = 1
        /\ inputs[dir][other] # NoList


\* ------------------------------------------------------------------------
\* C8
\* ------------------------------------------------------------------------

\* C8: while an execute is in progress, _running_item is the item being
\* executed; a stop() that runs during the execute of an item finds that
\* item at its test and at its call, and when it is the only stop() the
\* item's stop_execution has been called once and no other item's.
C8_StopReachesExecutingItem ==
    /\ rpc = "executing" => _running_item = current
    /\ (stop_target # None /\ spc \in {"test", "call"}) =>
           /\ Executing = stop_target
           /\ _running_item = stop_target
    /\ (stop_target # None /\ spc = "idle" /\ stops = 1) =>
           stop_calls = [solid \in Solids |->
                            IF solid = stop_target THEN 1 ELSE 0]

\* the only stop() began and ended during the forward execute of an item
\* that is not the first to run
C8_Witness ==
    /\ stops = 1
    /\ spc = "idle"
    /\ rpc = "executing"
    /\ direction = "forward"
    /\ stop_target = "B_1"
    /\ stop_calls["B_1"] = 1

\* ------------------------------------------------------------------------
\* C9
\* ------------------------------------------------------------------------

\* C9: a stop() called when the state is USER_STOPPED, FAILED or COMPLETED
\* leaves the state as it is.
C9_StopKeepsTerminalState ==
    [][(spc = "idle" /\ spc' = "test"
            /\ _state \in {USER_STOPPED, FAILED, COMPLETED}) =>
           _state' = _state]_vars

\* ------------------------------------------------------------------------
\* C10
\* ------------------------------------------------------------------------

RECURSIVE Concatenation(_, _, _)
\* the resources of the solids of the list, one solid after the other
Concatenation(solids, dir, i) ==
    IF i > Len(solids)
    THEN <<>>
    ELSE output_resources(solids[i], dir) \o Concatenation(solids, dir, i + 1)

\* C10: the inputs compute_fn builds for execute are the concatenation, in
\* the order of the solid's injector list of the direction, of the
\* resources of its predecessors, each predecessor being listed once; in
\* the diamond the forward inputs of D are the resources of B and of C.
C10_InputsAreConcatenation ==
    /\ \A dir \in Directions : \A solid \in Solids :
           inputs[dir][solid] # NoList =>
               LET injectors == Pipeline(dir).solid_defs[solid].input_defs
               IN  /\ inputs[dir][solid] = Concatenation(injectors, dir, 1)
                   /\ Range(injectors) = Predecessors(Edges, dir, solid)
                   /\ Len(injectors) = Cardinality(Range(injectors))
    /\ ("D_1" \in Solids /\ inputs["forward"]["D_1"] # NoList) =>
           inputs["forward"]["D_1"] \in
               {output_resources("B_1", "forward")
                    \o output_resources("C_1", "forward"),
                output_resources("C_1", "forward")
                    \o output_resources("B_1", "forward")}

\* the forward execute of D in the diamond is in progress, and the
\* backward execute of A has had the resources of B and C
C10_Witness ==
    /\ "D_1" \in Solids
    /\ rpc = "executing" /\ current = "D_1" /\ direction = "forward"
    /\ Len(inputs["forward"]["D_1"]) = 4
    /\ execute_calls["backward"]["A_1"] = 1
    /\ Len(inputs["backward"]["A_1"]) = 4


\* ------------------------------------------------------------------------
\* The injector maps of __init__, for every small successor mapping
\* ------------------------------------------------------------------------

ItemNames == {"A 1", "B 1", "C 1"}

\* the lists of distinct names of up to n names
NameLists(n) ==
    {list \in UNION {[1..k -> ItemNames] : k \in 0..n} :
        \A i \in DOMAIN list : \A j \in DOMAIN list : list[i] = list[j] => i = j}

\* the successor mapping with the keys, in their order, and the list of
\* successors of each
SuccessorMap(keys, lists) == [i \in DOMAIN keys |-> <<keys[i], lists[i]>>]

\* no engine exists: __init__ has not returned
NoEngine ==
    /\ _backward_pipeline = None
    /\ _forward_pipeline = None
    /\ _state = None
    /\ _running_item = None
    /\ direction = "backward"
    /\ current = None
    /\ status = <<>>
    /\ outputs = <<>>
    /\ spc = "__init__"
    /\ runs = 0
    /\ stops = 0
    /\ entry_state = None
    /\ stopped_in_run = FALSE
    /\ failed_set = FALSE
    /\ started_doomed = <<>>
    /\ inputs = <<>>
    /\ execute_calls = <<>>
    /\ output_calls = <<>>
    /\ stop_calls = <<>>
    /\ stop_target = None
    /\ execute_results = <<>>
    /\ last_event = None

InjectorsInit ==
    \* every successor mapping of up to MaxKeys items, in every order of
    \* the keys and of the successors, the empty list included
    /\ \E keys \in NameLists(MaxKeys) :
           \E lists \in [DOMAIN keys -> NameLists(MaxSuccessors)] :
               workflow = [project_items |-> <<"A 1", "B 1", "C 1">>,
                           successors |-> SuccessorMap(keys, lists)]
    /\ execution_permits = [name \in ItemNames |-> TRUE]
    /\ back_injectors = <<>>
    /\ forth_injectors = <<>>
    /\ round_trip = <<>>
    /\ rpc = "back_injectors"
    /\ NoEngine

Engine == <<_backward_pipeline, _forward_pipeline, _state, _running_item,
            direction, current, status, outputs, spc, runs, stops,
            entry_state, stopped_in_run, failed_set, started_doomed, inputs,
            execute_calls, output_calls, stop_calls, stop_target,
            execute_results, last_event>>

\* back_injectors = {d[key]: [d[x] for x in value] for ...}
MakeBackInjectors ==
    /\ rpc = "back_injectors"
    /\ rpc' = "forth_injectors"
    /\ back_injectors' = BackInjectors(workflow.successors)
    /\ UNCHANGED <<workflow, execution_permits, forth_injectors, round_trip,
                   Engine>>

\* forth_injectors = _inverted(back_injectors)
MakeForthInjectors ==
    /\ rpc = "forth_injectors"
    /\ rpc' = "inverted"
    /\ forth_injectors' = ForthInjectors(workflow.successors)
    /\ UNCHANGED <<workflow, execution_permits, back_injectors, round_trip,
                   Engine>>

\* _inverted applied to the inverted map
InvertAgain ==
    /\ rpc = "inverted"
    /\ rpc' = "round_trip"
    /\ round_trip' = _inverted(forth_injectors)
    /\ UNCHANGED <<workflow, execution_permits, back_injectors,
                   forth_injectors, Engine>>

InjectorsNext ==
    \/ MakeBackInjectors
    \/ MakeForthInjectors
    \/ InvertAgain

SpecInjectors == InjectorsInit /\ [][InjectorsNext]_vars

\* the dictionaries are equal: the same keys, each with the same list
DictEq(a, b) ==
    /\ Keys(a) = Keys(b)
    /\ \A key \in Keys(a) : Get(a, key) = Get(b, key)

\* the (key, element) pairs of a dictionary of lists
Pairs(dict) ==
    UNION {{<<dict[i][1], element>> : element \in Range(dict[i][2])} :
           i \in DOMAIN dict}

\* every key is listed once, and every list lists an element once
NoRepeats(dict) ==
    /\ Cardinality(Keys(dict)) = Len(dict)
    /\ \A i \in DOMAIN dict : Cardinality(Range(dict[i][2])) = Len(dict[i][2])

\* ------------------------------------------------------------------------
\* C11
\* ------------------------------------------------------------------------

\* C11 as stated: _inverted(_inverted(m)) equals m for every successor
\* mapping m.
C11_RoundTripIsIdentity ==
    rpc = "round_trip" => DictEq(round_trip, back_injectors)

\* C11 as amended: _inverted(_inverted(m)) has exactly the (item, successor)
\* pairs of m, each once: its keys are the items of m whose list is not
\* empty, no key has an empty list, and the list of a key has the elements
\* of its list in m, in some order.
C11_RoundTripKeepsEdges ==
    rpc = "round_trip" =>
        /\ NoRepeats(round_trip)
        /\ Pairs(round_trip) = Pairs(back_injectors)
        /\ Keys(round_trip) =
               {key \in Keys(back_injectors) : Get(back_injectors, key) # <<>>}
        /\ \A key \in Keys(round_trip) :
               Len(Get(round_trip, key)) = Len(Get(back_injectors, key))

\* the round trip of a mapping with an empty list and with a list whose
\* order the round trip changes
C11_Witness ==
    /\ rpc = "round_trip"
    /\ \E key \in Keys(back_injectors) : Get(back_injectors, key) = <<>>
    /\ \E key \in Keys(round_trip) :
           Get(round_trip, key) # Get(back_injectors, key)

\* ------------------------------------------------------------------------
\* C12
\* ------------------------------------------------------------------------

\* the edges item -> successor of a successor mapping, by short name
EdgesOf(successors) ==
    UNION {{<<short_name(successors[i][1]), short_name(successor)>> :
               successor \in Range(successors[i][2])} :
           i \in DOMAIN successors}

\* C12: s is listed in back_injectors[i] iff i is listed in
\* forth_injectors[s] iff i -> s is an edge of the successor mapping; every
\* edge is listed once in each map, and no key has an empty list in
\* forth_injectors.
C12_InjectorMapsAreInverses ==
    rpc \in {"inverted", "round_trip"} =>
        LET edges == EdgesOf(workflow.successors)
        IN  /\ Pairs(back_injectors) = edges
            /\ {<<pair[2], pair[1]>> : pair \in Pairs(forth_injectors)} = edges
            /\ NoRepeats(back_injectors)
            /\ NoRepeats(forth_injectors)
            /\ \A i \in DOMAIN forth_injectors : forth_injectors[i][2] # <<>>

\* both maps are built for a mapping in which two items share a successor
C12_Witness ==
    /\ rpc = "inverted"
    /\ \E i \in DOMAIN forth_injectors : Len(forth_injectors[i][2]) = 2
    /\ \E i \in DOMAIN back_injectors : Len(back_injectors[i][2]) = 2

\* ------------------------------------------------------------------------
\* C13
\* ------------------------------------------------------------------------

\* C13: every call of stop() leaves _state USER_STOPPED, whatever it was
\* (USER_STOPPED of an earlier stop() included); a stop() that finds no
\* running item returns without calling stop_execution, so no
\* stop_execution is called while _running_item is None, and stop() never
\* calls stop_execution on None.
C13_StopIsIdempotentAndSafe ==
    [][/\ stops' = stops + 1 => _state' = USER_STOPPED
       /\ (spc = "test" /\ spc' # "test" /\ _running_item = None) =>
              /\ spc' = "idle"
              /\ stop_calls' = stop_calls
       /\ spc' = "call" => _running_item' # None
       /\ _running_item' = None =>
              \A item \in DOMAIN stop_calls' : stop_calls'[item] = 0]_vars

\* stop() was called twice and has returned twice, both times after run()
\* set RUNNING and before any step started
C13_Witness ==
    /\ runs = 1
    /\ entry_state = SLEEPING
    /\ stops = 2
    /\ spc = "idle"
    /\ rpc = "next"
    /\ _running_item = None
    /\ _state = USER_STOPPED

\* ------------------------------------------------------------------------
\* Construction from arguments that may name an unknown item
\* ------------------------------------------------------------------------

\* workflows whose successors name an item that is not given: as a
\* successor, as a key
BadWorkflows ==
    { [project_items |-> <<"A 1", "B 1">>,
       successors |-> << <<"A 1", <<"B 1", "E 1">>>> >>],
      [project_items |-> <<"A 1", "B 1">>,
       successors |-> << <<"A 1", <<"B 1">>>>, <<"E 1", <<"A 1">>>> >>] }

\* d = {item.name: item.short_name for item in project_items}
d(project_items) == [name \in Range(project_items) |-> short_name(name)]

\* d[key] or d[x] raises KeyError
KeyError(project_items, successors) ==
    \E i \in DOMAIN successors :
        \/ successors[i][1] \notin DOMAIN d(project_items)
        \/ \E x \in Range(successors[i][2]) : x \notin DOMAIN d(project_items)

ConstructInit ==
    /\ workflow \in Workflows \union BadWorkflows
    /\ execution_permits \in PermitMaps(Range(workflow.project_items))
    /\ back_injectors = <<>>
    /\ forth_injectors = <<>>
    /\ round_trip = <<>>
    /\ rpc = "__init__"
    /\ NoEngine

\* faulty variant: the error is swallowed and __init__ returns
Raise_Swallowed ==
    /\ rpc' = "constructed"
    /\ UNCHANGED <<Static, Engine>>

\* the KeyError leaves __init__: no instance is bound
Raise ==
    /\ rpc' = "KeyError"
    /\ UNCHANGED <<Static, Engine>>

\* SpineEngine(project_items, successors, execution_permits)
Construct ==
    /\ rpc = "__init__"
    /\ IF KeyError(workflow.project_items, workflow.successors)
       THEN Raise
       ELSE /\ back_injectors' = BackInjectors(workflow.successors)
            /\ forth_injectors' = ForthInjectors(workflow.successors)
            /\ _backward_pipeline' =
                   _make_pipeline(workflow.project_items,
                                  BackInjectors(workflow.successors),
                                  "backward", execution_permits)
            /\ _forward_pipeline' =
                   _make_pipeline(workflow.project_items,
                                  ForthInjectors(workflow.successors),
                                  "forward", execution_permits)
            /\ _state' = SLEEPING
            /\ _running_item' = None
            /\ rpc' = "idle"
            /\ spc' = "idle"
            /\ status' = Fresh("pending")
            /\ outputs' = Fresh(NoList)
            /\ started_doomed' = Fresh(FALSE)
            /\ inputs' = Fresh(NoList)
            /\ execute_calls' = Fresh(0)
            /\ output_calls' = Fresh(0)
            /\ stop_calls' = [solid \in Solids |-> 0]
            /\ execute_results' = Fresh(None)
            /\ UNCHANGED <<workflow, execution_permits, round_trip, direction,
                           last_event,
                           current, runs, stops, entry_state, stopped_in_run,
                           failed_set, stop_target>>

ConstructNext ==
    \/ Construct
    \/ Next

SpecConstruct == ConstructInit /\ [][ConstructNext]_vars

\* ------------------------------------------------------------------------
\* C14
\* ------------------------------------------------------------------------

\* C14: when the successor mapping names an item that is not given, as a
\* key or as a successor, the constructor ends with an error: no engine
\* exists (no attribute is ever set, run() and stop() are never entered)
\* and no execute, output_resources or stop_execution is ever counted.
C14_UnknownNameFailsConstruction ==
    KeyError(workflow.project_items, workflow.successors) =>
        /\ rpc \in {"__init__", "KeyError"}
        /\ NoEngine
        /\ execute_calls = <<>>
        /\ output_calls = <<>>
        /\ stop_calls = <<>>

\* the constructor has failed on a mapping whose keys are all known and
\* one of whose successors is not
C14_Witness ==
    /\ rpc = "KeyError"
    /\ \A i \in DOMAIN workflow.successors :
           workflow.successors[i][1] \in Range(workflow.project_items)

\* ------------------------------------------------------------------------
\* C15
\* ------------------------------------------------------------------------

RECURSIVE Dependents(_, _, _, _)
\* the solids that take, through n or fewer steps, the output of one of the
\* solids of the set as input in the direction
Dependents(edges, dir, set, n) ==
    IF n = 0
    THEN {}
    ELSE LET next == {solid \in Solids :
                         Predecessors(edges, dir, solid) \cap set # {}}
         IN  next \cup Dependents(edges, dir, next, n - 1)

\* the step of the solid has neither started nor called the item
Untouched(dir, solid) ==
    /\ execute_calls[dir][solid] = 0
    /\ output_calls[dir][solid] = 0
    /\ inputs[dir][solid] = NoList
    /\ outputs[dir][solid] = NoList

\* C15: in each pass, a solid one of whose predecessors failed or was
\* skipped is never started: it is skipped, with no execute and no
\* output_resources; every solid that depends, through any number of edges,
\* on a failed solid is skipped when the pass has ended; a solid is skipped
\* only for such a predecessor; and the step that skips a solid changes
\* neither _state nor _running_item, so no FAILED comes of it.
C15_SkipCascade ==
    [][LET edges == Edges
       IN  \A dir \in Directions : \A solid \in Solids :
               LET preds == Predecessors(edges, dir, solid)
                   cut == \E up \in preds :
                              status'[dir][up] \in {"failed", "skipped"}
               IN  /\ cut => /\ status'[dir][solid] \in {"pending", "skipped"}
                             /\ Untouched(dir, solid)'
                   /\ status'[dir][solid] = "skipped" => cut
                   /\ (status'[dir][solid] = "failed" /\ AllEnded(dir)') =>
                          \A down \in Dependents(edges, dir, {solid},
                                                 Cardinality(Solids)) :
                              status'[dir][down] = "skipped"
                   /\ (status[dir][solid] # "skipped"
                          /\ status'[dir][solid] = "skipped") =>
                          /\ _state' = _state
                          /\ _running_item' = _running_item
                          /\ failed_set' = failed_set
                          /\ rpc' = rpc]_vars

\* a solid is skipped all of whose predecessors were skipped themselves,
\* and the only step that failed is another solid's
C15_Witness ==
    \E dir \in Directions : \E solid \in Solids :
        LET preds == Predecessors(Edges, dir, solid)
        IN  /\ preds # {}
            /\ status[dir][solid] = "skipped"
            /\ \A up \in preds : status[dir][up] = "skipped"
            /\ _running_item # solid

\* ------------------------------------------------------------------------
\* C16
\* ------------------------------------------------------------------------

\* C16: in a run, for every item and direction, execute is called at most
\* once and output_resources at most once; output_resources is called only
\* when execute, if the item is permitted, has returned True (and is not
\* called at all without a permit), and it is what defines the output of
\* the solid; a solid that failed or was skipped has no output_resources
\* call and no output.
C16_OutputWrittenOnce ==
    rpc \notin {"__init__", "KeyError"} =>
        \A dir \in Directions : \A solid \in Solids :
            /\ execute_calls[dir][solid] <= 1
            /\ output_calls[dir][solid] <= 1
            /\ ~PermitOf(solid) => execute_calls[dir][solid] = 0
            /\ execute_results[dir][solid] # None =>
                   execute_calls[dir][solid] = 1
            /\ output_calls[dir][solid] = 1 =>
                   /\ status[dir][solid] = "succeeded"
                   /\ PermitOf(solid) => execute_results[dir][solid] = "True"
            /\ outputs[dir][solid] # NoList <=> output_calls[dir][solid] = 1
            /\ status[dir][solid] \in {"failed", "skipped"} =>
                   /\ output_calls[dir][solid] = 0
                   /\ outputs[dir][solid] = NoList

\* in one pass an item's execute returned False and it has no output, and
\* another's returned True and its output_resources was called once
C16_Witness ==
    \E dir \in Directions : \E failed \in Solids : \E done \in Solids :
        /\ execute_results[dir][failed] = "False"
        /\ status[dir][failed] = "failed"
        /\ output_calls[dir][failed] = 0
        /\ execute_results[dir][done] = "True"
        /\ output_calls[dir][done] = 1

\* ------------------------------------------------------------------------
\* C17
\* ------------------------------------------------------------------------

\* every solid of the pass has succeeded, failed or been skipped
PassEnded(dir) ==
    \A solid \in Solids : status[dir][solid] \in {"succeeded", "failed", "skipped"}

\* C17: when the thread in run() keeps running and every execute returns,
\* a run() that was entered sees every solid of the backward pass end, then
\* every solid of the forward pass, and returns, whatever the permits, the
\* results of execute and the moments of the calls of stop().
C17_RunTerminates ==
    /\ <>[](runs = 1 =>
               Returned /\ PassEnded("backward") /\ PassEnded("forward"))
    /\ [](\A solid \in Solids :
              status["forward"][solid] # "pending" => PassEnded("backward"))

\* run() has returned after a pass in which a solid was skipped and after
\* a call of stop() during the run
C17_Witness ==
    /\ Returned
    /\ stopped_in_run
    /\ PassEnded("backward")
    /\ PassEnded("forward")
    /\ \E solid \in Solids : status["backward"][solid] = "skipped"

\* ------------------------------------------------------------------------
\* C18
\* ------------------------------------------------------------------------

\* the item succeeded as a step of the pass: its execute, if permitted, was
\* called once and returned True, and its output_resources was called once
Succeeded(dir, solid) ==
    /\ status[dir][solid] = "succeeded"
    /\ output_calls[dir][solid] = 1
    /\ IF PermitOf(solid)
       THEN /\ execute_calls[dir][solid] = 1
            /\ execute_results[dir][solid] = "True"
       ELSE execute_calls[dir][solid] = 0

\* C18: when run() has returned and stop() was never called, the state is
\* COMPLETED if every item, an item with no edge included, succeeded in the
\* backward and in the forward pass, and FAILED if not.
C18_CompletedIffAllSucceeded ==
    (Returned /\ stops = 0) =>
        IF \A dir \in Directions : \A solid \in Solids : Succeeded(dir, solid)
        THEN _state = COMPLETED
        ELSE _state = FAILED

\* a run without stop() has returned COMPLETED for a workflow one of whose
\* items has no edge
C18_Witness ==
    /\ Returned
    /\ stops = 0
    /\ _state = COMPLETED
    /\ \E solid \in Solids :
           /\ \A e \in Edges : solid # e[1] /\ solid # e[2]
           /\ Succeeded("backward", solid)
           /\ Succeeded("forward", solid)

\* ------------------------------------------------------------------------
\* C19
\* ------------------------------------------------------------------------

RECURSIVE Sum(_, _)
\* the sum of the values of a function over the set of arguments
Sum(f, set) ==
    IF set = {}
    THEN 0
    ELSE LET x == CHOOSE y \in set : TRUE
         IN  f[x] + Sum(f, set \ {x})

\* a step of some pass has started
SomeStarted ==
    \E dir \in Directions : \E solid \in Solids :
        status[dir][solid] \in {"started", "succeeded", "failed"}

\* C19: _running_item is None until run() meets the first STEP_START or
\* STEP_FAILURE event and from then on is the item of the last such event
\* it met, the return of run() included; so a stop() that tests
\* _running_item after a step has started goes on to call stop_execution,
\* which is called once, on the item recorded at that moment, and no
\* stop() calls it more than once.
C19_RunningItemIsLastEvent ==
    [][/\ _running_item' = last_event'
       /\ _running_item' = None <=> ~SomeStarted'
       /\ _running_item # None => _running_item' # None
       /\ (spc = "test" /\ spc' # "test" /\ SomeStarted) => spc' = "call"
       /\ (spc = "call" /\ spc' # "call") =>
              /\ last_event # None
              /\ stop_calls' = [stop_calls EXCEPT ![last_event] = @ + 1]
       /\ spc' = spc => stop_calls' = stop_calls
       /\ Sum(stop_calls', Solids) + (IF spc' = "call" THEN 1 ELSE 0)
              <= stops']_vars

\* a stop() called after run() returned, the only one, has called
\* stop_execution on the item of the last event, whose step had ended
C19_Witness ==
    /\ Returned
    /\ entry_state = SLEEPING
    /\ ~stopped_in_run
    /\ stops = 1
    /\ spc = "idle"
    /\ last_event # None
    /\ stop_calls[last_event] = 1

\* ------------------------------------------------------------------------
\* run() called again on the same engine
\* ------------------------------------------------------------------------

\* the engine is built for the chain A -> B with an item with no edge
RerunInit ==
    /\ Init
    /\ Len(workflow.project_items) = 3

\* run() is entered again after it returned
RunAgain ==
    /\ rpc = "idle"
    /\ runs >= 1
    /\ runs < MaxRuns
    /\ runs' = runs + 1
    /\ entry_state' = _state
    /\ _state' = RUNNING
    /\ rpc' = "next"
    /\ direction' = "backward"
    /\ current' = None
    /\ status' = Fresh("pending")
    /\ outputs' = Fresh(NoList)
    /\ stopped_in_run' = FALSE
    /\ failed_set' = FALSE
    /\ started_doomed' = Fresh(FALSE)
    /\ inputs' = Fresh(NoList)
    /\ execute_calls' = Fresh(0)
    /\ output_calls' = Fresh(0)
    /\ execute_results' = Fresh(None)
    /\ UNCHANGED <<Static, _running_item, StopVars, last_event>>

RerunNext ==
    \/ Next
    \/ RunAgain

SpecRerun == RerunInit /\ [][RerunNext]_vars

\* ------------------------------------------------------------------------
\* C20
\* ------------------------------------------------------------------------

\* C20: every entry of run() sets RUNNING, whatever the state was:
\* USER_STOPPED of a stop() made before, or the FAILED, USER_STOPPED or
\* COMPLETED an earlier run() left. The state then stays RUNNING until a
\* step fails or stop() is called anew, and a run() that returns with no
\* stop() since its entry leaves COMPLETED if every item succeeded in both
\* passes and FAILED if not, as a run() without any stop() does.
C20_RunAlwaysSetsRunning ==
    [][/\ runs' = runs + 1 =>
              /\ _state' = RUNNING
              /\ entry_state' = _state
              /\ rpc' = "next"
       /\ (rpc' # "idle" /\ ~stopped_in_run' /\ ~failed_set') =>
              _state' = RUNNING
       /\ (rpc # "idle" /\ rpc' = "idle" /\ ~stopped_in_run') =>
              IF \A dir \in Directions : \A solid \in Solids :
                     Succeeded(dir, solid)'
              THEN _state' = COMPLETED
              ELSE _state' = FAILED]_vars

\* run() was entered again in USER_STOPPED, which the only stop(), returned
\* since, had left on the engine, and has returned COMPLETED
C20_Witness ==
    /\ runs = 2
    /\ entry_state = USER_STOPPED
    /\ stops = 1
    /\ spc = "idle"
    /\ ~stopped_in_run
    /\ Returned
    /\ _state = COMPLETED

====
